---- MODULE Spec2Model ----
(***************************************************************************)
(* Model of src/src/vector2.rs: the Vector2 value type of                  *)
(* svg_polygon_parser, its arithmetic, norm, normalisation, angle and      *)
(* Display.                                                                *)
(*                                                                         *)
(* The components are f64 and are computed at the width of f64: IEEE-754   *)
(* binary64, 53 significand bits, exponents -1022..1023, signed zeros,     *)
(* subnormals, infinities, NaN, round to nearest with ties to even.  A     *)
(* significand does not fit a 32-bit integer, so natural numbers are kept  *)
(* as sequences of digits in base 2^15.                                    *)
(***************************************************************************)
EXTENDS Integers, Sequences, FiniteSets, TLC

VARIABLES self, op, other, c, ret

vars == <<self, op, other, c, ret>>

(***************************************************************************)
(* Natural numbers of any size: the sequence of their digits in base       *)
(* 2^LimbBits, least significant first, without leading zero digits        *)
(* (zero is the empty sequence).                                           *)
(***************************************************************************)

LimbBits == 15

Base == 32768

RECURSIVE Pow2(_)
Pow2(n) == IF n <= 0 THEN 1 ELSE 2 * Pow2(n - 1)

RECURSIVE BitLen(_)
BitLen(n) == IF n = 0 THEN 0 ELSE 1 + BitLen(n \div 2)

Max(i, j) == IF i >= j THEN i ELSE j

Min(i, j) == IF i <= j THEN i ELSE j

Xor(s, t) == IF s = t THEN 0 ELSE 1

Limb(a, i) == IF i >= 1 /\ i <= Len(a) THEN a[i] ELSE 0

\* The sequence f itself, with its elements computed once.
AsSeq(f) == f \o <<>>

\* a without its leading zero digits
NTrim(a) ==
    IF a = <<>> \/ a[Len(a)] # 0 THEN a
    ELSE LET nz == {i \in 1..Len(a) : a[i] # 0}
         IN  IF nz = {} THEN <<>>
             ELSE SubSeq(a, 1, CHOOSE i \in nz : \A j \in nz : j <= i)

\* The number whose digits are the integers of t, any of which may lie
\* outside 0..Base-1: carries and borrows are moved up until none is left.
RECURSIVE NNorm(_)
NNorm(t) ==
    IF \A i \in 1..Len(t) : t[i] >= 0 /\ t[i] < Base THEN NTrim(t)
    ELSE NNorm(AsSeq([i \in 1..(Len(t) + 1) |->
                         (Limb(t, i) % Base) + (Limb(t, i - 1) \div Base)]))

RECURSIVE NOfInt(_)
NOfInt(n) == IF n = 0 THEN <<>> ELSE <<n % Base>> \o NOfInt(n \div Base)

\* The value of a number of at most two digits
NToInt(a) == Limb(a, 1) + Base * Limb(a, 2)

\* a + b
NAdd(a, b) ==
    IF a = <<>> THEN b
    ELSE IF b = <<>> THEN a
    ELSE NNorm(AsSeq([i \in 1..Max(Len(a), Len(b)) |->
                         Limb(a, i) + Limb(b, i)]))

\* a - b, for a >= b
NSub(a, b) ==
    IF b = <<>> THEN a
    ELSE NNorm(AsSeq([i \in 1..Len(a) |-> a[i] - Limb(b, i)]))

\* -1, 0 or 1 as a < b, a = b or a > b
NCmp(a, b) ==
    IF Len(a) < Len(b) THEN 0 - 1
    ELSE IF Len(a) > Len(b) THEN 1
    ELSE IF a = b THEN 0
    ELSE LET df == {i \in 1..Len(a) : a[i] # b[i]}
             t  == IF a[Len(a)] # b[Len(a)] THEN Len(a)
                   ELSE CHOOSE i \in df : \A j \in df : j <= i
         IN  IF a[t] < b[t] THEN 0 - 1 ELSE 1

\* a * d, for 0 <= d <= Base
NMulSmall(a, d) ==
    IF a = <<>> \/ d = 0 THEN <<>>
    ELSE NNorm(AsSeq([i \in 1..Len(a) |-> a[i] * d]))

\* a * Base^n
NShlDigits(a, n) == IF a = <<>> THEN a ELSE [i \in 1..n |-> 0] \o a

\* a times the number made of the digits lo..hi of b
RECURSIVE NMulRange(_, _, _, _)
NMulRange(a, b, lo, hi) ==
    IF lo = hi THEN NMulSmall(a, b[lo])
    ELSE LET mid == (lo + hi) \div 2
         IN  NAdd(NMulRange(a, b, lo, mid),
                  NShlDigits(NMulRange(a, b, mid + 1, hi), mid - lo + 1))

\* a * b
NMul(a, b) ==
    IF a = <<>> \/ b = <<>> THEN <<>>
    ELSE IF Len(a) >= Len(b) THEN NMulRange(a, b, 1, Len(b))
    ELSE NMulRange(b, a, 1, Len(a))

\* a * 2^n
NShl(a, n) ==
    IF a = <<>> \/ n = 0 THEN a
    ELSE NShlDigits(NMulSmall(a, Pow2(n % LimbBits)), n \div LimbBits)

\* floor(a / 2^n)
NShr(a, n) ==
    IF n \div LimbBits >= Len(a) THEN <<>>
    ELSE LET t == SubSeq(a, (n \div LimbBits) + 1, Len(a))
             p == Pow2(n % LimbBits)
         IN  NTrim(AsSeq([i \in 1..Len(t) |->
                       (t[i] \div p) + (Limb(t, i + 1) % p) * (Base \div p)]))

\* The number of bits of a
NBitLen(a) ==
    IF a = <<>> THEN 0 ELSE LimbBits * (Len(a) - 1) + BitLen(a[Len(a)])

\* Bit i of a (bit 0 is the least significant)
NBit(a, i) == (Limb(a, (i \div LimbBits) + 1) \div Pow2(i % LimbBits)) % 2

\* a mod 2^n is not zero
NLowBits(a, n) ==
    \/ \E j \in 1..Min(Len(a), n \div LimbBits) : a[j] # 0
    \/ Limb(a, (n \div LimbBits) + 1) % Pow2(n % LimbBits) # 0

NIsOdd(a) == Limb(a, 1) % 2 = 1

\* The largest digit q <= g with q * d <= n.
RECURSIVE NFitDigit(_, _, _)
NFitDigit(d, n, g) ==
    IF NCmp(NMulSmall(d, g), n) > 0 THEN NFitDigit(d, n, g - 1) ELSE g

\* Long division of the digits i, i-1, ..., 1 of n by d, whose leading digit
\* is at least Base / 2: qr is <<the quotient, the remainder>> of the
\* digits above i, and the result that of all the digits.  cur is the
\* remainder with digit i of n appended, q the digit of the quotient there.
RECURSIVE NDivFrom(_, _, _, _)
RECURSIVE NDivDigit(_, _, _, _, _)
RECURSIVE NDivStep(_, _, _, _, _, _)
NDivStep(n, d, i, qr, cur, q) ==
    NDivFrom(n, d, i - 1,
             <<IF qr[1] = <<>> /\ q = 0 THEN <<>> ELSE <<q>> \o qr[1],
               NSub(cur, NMulSmall(d, q))>>)

NDivDigit(n, d, i, qr, cur) ==
    NDivStep(n, d, i, qr, cur,
             NFitDigit(d, cur,
                       Min((Limb(cur, Len(d) + 1) * Base + Limb(cur, Len(d)))
                               \div d[Len(d)],
                           Base - 1)))

NDivFrom(n, d, i, qr) ==
    IF i = 0 THEN qr
    ELSE IF qr[2] = <<>> /\ n[i] = 0
         THEN NDivFrom(n, d, i - 1, <<NShlDigits(qr[1], 1), qr[2]>>)
    ELSE NDivDigit(n, d, i, qr, <<n[i]>> \o qr[2])

\* The division of n1 = n * 2^k by d1 = d * 2^k, whose leading digit is at
\* least Base / 2.  The leading digits of n1, one fewer than d1 has, are
\* below d1 and start as the remainder.
NDivScaled(n1, d1) ==
    IF Len(n1) < Len(d1) THEN <<(<<>>), n1>>
    ELSE NDivFrom(n1, d1, Len(n1) - Len(d1) + 1,
                  <<(<<>>), SubSeq(n1, Len(n1) - Len(d1) + 2, Len(n1))>>)

\* The quotient and the remainder, scaled back by 2^k.
NDivResult(qr, k) == <<qr[1], NShr(qr[2], k)>>

\* <<floor(n / d), n mod d>> for d # 0
NDivMod(n, d) ==
    NDivResult(NDivScaled(NShl(n, LimbBits - BitLen(d[Len(d)])),
                          NShl(d, LimbBits - BitLen(d[Len(d)]))),
               LimbBits - BitLen(d[Len(d)]))

RECURSIVE ISqrt(_)
ISqrt(n) ==
    IF n < 2 THEN n
    ELSE LET r == 2 * ISqrt(n \div 4)
         IN  IF (r + 1) * (r + 1) <= n THEN r + 1 ELSE r

\* Newton's iteration for floor(sqrt(n)) from an estimate r above it: r1
\* is the next estimate.
RECURSIVE NSqrtFrom(_, _)
RECURSIVE NSqrtStep(_, _, _)
NSqrtStep(n, r, r1) == IF NCmp(r1, r) < 0 THEN NSqrtFrom(n, r1) ELSE r

NSqrtFrom(n, r) == NSqrtStep(n, r, NShr(NAdd(r, NDivMod(n, r)[1]), 1))

\* An estimate above sqrt(n) from the leading bits of n, those above bit sh.
NSqrtStart(n, sh) ==
    NShl(NOfInt(ISqrt(NToInt(NShr(n, sh))) + 1), sh \div 2)

\* <<r, n is not r * r>>
NSqrtExact(n, r) == <<r, NMul(r, r) # n>>

\* <<floor(sqrt(n)), n is not a square>> for n # 0
NSqrt(n) ==
    NSqrtExact(n,
               NSqrtFrom(n,
                         NSqrtStart(n, 2 * (Max(NBitLen(n) - 29, 0) \div 2))))
(***************************************************************************)
(* f64: IEEE-754 binary64.  A value is NaN, an infinity, or the finite     *)
(* number (-1)^s * m * 2^e with the significand m a natural number below   *)
(* 2^Prec and QMin <= e <= QMax.                                           *)
(***************************************************************************)

\* f64::MANTISSA_DIGITS: bits of the significand, the hidden one included.
Prec == 53

\* f64::MAX_EXP - 1: exponent of the largest binade.
EMax == 1023

\* f64::MIN_EXP - 1: exponent of the smallest normal binade.
EMin == 1 - EMax

\* A finite value is m * 2^e with QMin <= e <= QMax.
QMin == EMin - Prec + 1

QMax == EMax - Prec + 1

\* f64::NAN
NaN == [k |-> "nan", s |-> 0, m |-> <<>>, e |-> 0]

\* f64::INFINITY (s = 0) and f64::NEG_INFINITY (s = 1)
Inf(s) == [k |-> "inf", s |-> s, m |-> <<>>, e |-> 0]

\* The finite value (-1)^s * m * 2^e
Fin(s, m, e) == [k |-> "fin", s |-> s, m |-> m, e |-> e]

\* 0.0 (s = 0) and -0.0 (s = 1)
Zero(s) == Fin(s, <<>>, QMin)

\* 1.0
One == Fin(0, NShl(<<1>>, Prec - 1), 1 - Prec)

IsNaN(x) == x.k = "nan"

IsInf(x) == x.k = "inf"

IsFinite(x) == x.k = "fin"

IsZero(x) == x.k = "fin" /\ x.m = <<>>

IsNormal(x) == x.k = "fin" /\ NBitLen(x.m) = Prec

\* A rounded significand m at exponent q: overflow gives an infinity.
Pack(s, m, q) == IF q > QMax THEN Inf(s) ELSE Fin(s, m, q)

\* The kept bits of a significand with the carry of the rounding added: a
\* carry out of the top bit moves to the next binade.
RoundCarry(s, q, m1) ==
    IF NBitLen(m1) > Prec THEN Pack(s, NShl(<<1>>, Prec - 1), q + 1)
    ELSE Pack(s, m1, q)

\* M loses its sh low bits and keeps keep: round up when the first bit lost
\* is set and either a lower one is, or the kept bits are odd.
RoundKeep(s, M, sh, sticky, q, keep) ==
    RoundCarry(s, q,
               IF /\ NBit(M, sh - 1) = 1
                  /\ \/ NLowBits(M, sh - 1)
                     \/ sticky
                     \/ NIsOdd(keep)
               THEN NAdd(keep, <<1>>)
               ELSE keep)

\* The rounding of M * 2^E to the exponent q of the result.
RoundAt(s, M, E, sticky, q) ==
    IF q <= E THEN Pack(s, NShl(M, E - q), q)
    ELSE RoundKeep(s, M, q - E, sticky, q, NShr(M, q - E))

\* Round to nearest, ties to even, of (-1)^s * (M + t) * 2^E, where
\* 0 <= t < 1 and sticky says t > 0.
Round(s, M, E, sticky) ==
    IF M = <<>> /\ ~sticky THEN Zero(s)
    ELSE RoundAt(s, M, E, sticky, Max(E + NBitLen(M) - Prec, QMin))

\* -x
FNeg(x) == IF IsNaN(x) THEN NaN ELSE [x EXCEPT !.s = 1 - x.s]

\* (-1)^sx * (mx + t) * 2^e + (-1)^sy * my * 2^e rounded, where 0 <= t < 1
\* and sticky says t > 0.
AddMag(sx, sy, mx, my, e, sticky) ==
    IF sx = sy THEN Round(sx, NAdd(mx, my), e, sticky)
    ELSE IF mx = my THEN Zero(0)
    ELSE Round(IF NCmp(mx, my) > 0 THEN sx ELSE sy,
               IF NCmp(mx, my) > 0 THEN NSub(mx, my) ELSE NSub(my, mx),
               e, sticky)

\* x + y for finite x, y that are not zero, x.e >= y.e.  When y lies below
\* a quarter of the last place of x it only decides the direction of the
\* rounding: it adds a fraction to the significand 4 * x.m, or takes one
\* from it.
AddOrdered(x, y) ==
    IF x.e - y.e > Prec + 2
    THEN AddMag(x.s, y.s, NShl(x.m, 2), IF x.s = y.s THEN <<>> ELSE <<1>>,
                x.e - 2, TRUE)
    ELSE AddMag(x.s, y.s, NShl(x.m, x.e - y.e), y.m, y.e, FALSE)

\* x + y
FAdd(x, y) ==
    IF IsNaN(x) \/ IsNaN(y) THEN NaN
    ELSE IF IsInf(x) THEN (IF IsInf(y) /\ y.s # x.s THEN NaN ELSE x)
    ELSE IF IsInf(y) THEN y
    ELSE IF IsZero(x) /\ IsZero(y)
         THEN Zero(IF x.s = 1 /\ y.s = 1 THEN 1 ELSE 0)
    ELSE IF IsZero(x) THEN y
    ELSE IF IsZero(y) THEN x
    ELSE AddOrdered(IF x.e >= y.e THEN x ELSE y, IF x.e >= y.e THEN y ELSE x)

\* x - y
FSub(x, y) == FAdd(x, FNeg(y))

\* x * y
FMul(x, y) ==
    IF IsNaN(x) \/ IsNaN(y) THEN NaN
    ELSE IF IsInf(x) \/ IsInf(y)
         THEN (IF IsZero(x) \/ IsZero(y) THEN NaN ELSE Inf(Xor(x.s, y.s)))
    ELSE Round(Xor(x.s, y.s), NMul(x.m, y.m), x.e + y.e, FALSE)

\* The quotient of the significands, x's scaled by 2^sc so that the quotient
\* has at least Prec + 2 bits, rounded.
FDivRound(x, y, sc, qr) ==
    Round(Xor(x.s, y.s), qr[1], x.e - y.e - sc, qr[2] # <<>>)

FDivScaled(x, y, sc) == FDivRound(x, y, sc, NDivMod(NShl(x.m, sc), y.m))

\* x / y
FDiv(x, y) ==
    IF IsNaN(x) \/ IsNaN(y) THEN NaN
    ELSE IF IsInf(x) THEN (IF IsInf(y) THEN NaN ELSE Inf(Xor(x.s, y.s)))
    ELSE IF IsInf(y) THEN Zero(Xor(x.s, y.s))
    ELSE IF IsZero(y) THEN (IF IsZero(x) THEN NaN ELSE Inf(Xor(x.s, y.s)))
    ELSE IF IsZero(x) THEN Zero(Xor(x.s, y.s))
    ELSE FDivScaled(x, y, Prec + 3 + NBitLen(y.m) - NBitLen(x.m))

\* The root of the significand, scaled by 2^sc with x.e - sc even so that
\* the root has at least Prec + 2 bits, rounded.
FSqrtRound(x, sc, rr) == Round(0, rr[1], (x.e - sc) \div 2, rr[2])

FSqrtScaled(x, sc) == FSqrtRound(x, sc, NSqrt(NShl(x.m, sc)))

\* x.sqrt()
FSqrt(x) ==
    IF IsNaN(x) THEN NaN
    ELSE IF IsZero(x) THEN x
    ELSE IF x.s = 1 THEN NaN
    ELSE IF IsInf(x) THEN x
    ELSE FSqrtScaled(x, (2 * Prec + 4 - NBitLen(x.m))
                            + ((x.e - (2 * Prec + 4 - NBitLen(x.m))) % 2))

\* The square-and-multiply loop of the powi intrinsic, for n >= 0 (for
\* n = 2 the single product x * x): r1 is the result with the low bit of n
\* taken in.
RECURSIVE PowiLoop(_, _, _)
RECURSIVE PowiNext(_, _, _)
PowiNext(a, n, r1) ==
    IF n \div 2 = 0 THEN r1 ELSE PowiLoop(FMul(a, a), n \div 2, r1)

PowiLoop(a, n, r) == PowiNext(a, n, IF n % 2 = 1 THEN FMul(r, a) ELSE r)

\* A negative n gives the reciprocal of the power p.
PowiSign(n, p) == IF n < 0 THEN FDiv(One, p) ELSE p

\* x.powi(n)
FPowi(x, n) == PowiSign(n, PowiLoop(x, IF n < 0 THEN 0 - n ELSE n, One))

\* x == y on f64: NaN equals nothing, 0.0 equals -0.0.
FEq(x, y) ==
    /\ ~IsNaN(x)
    /\ ~IsNaN(y)
    /\ \/ x = y
       \/ IsZero(x) /\ IsZero(y)

(***************************************************************************)
(* y.atan2(x): the libm function.  Its precision is not specified (the    *)
(* documentation of f64::atan2 calls it non-deterministic: it varies by    *)
(* platform and version), and the libm in use is within one unit in the    *)
(* last place but not correctly rounded.  The model computes the angle of  *)
(* (x, y) in fixed point (FixBits fractional bits, more than the format    *)
(* keeps); the call may return either of the two f64 next to the angle.    *)
(* The special cases of IEEE-754 / C99 Annex F for zeros, infinities and   *)
(* NaN return one value.                                                   *)
(***************************************************************************)

\* Fractional bits of the fixed-point numbers.
FixBits == 160

\* The arctangent is tabulated at the multiples of 2^-StepBits in [0, 1].
StepBits == 5

\* The arctangent series is summed up to the term in r^(2 * SeriesTerms + 1).
SeriesTerms == 16

\* 1 in fixed point
FixOne == NShl(<<1>>, FixBits)

\* floor(a * b) in fixed point
FixMul(a, b) == NShr(NMul(a, b), FixBits)

\* floor(a / b) in fixed point
FixDiv(a, b) == NDivMod(NShl(a, FixBits), b)[1]

\* floor(pi * 2^FixBits)
PiFix == <<14370, 18450, 19730, 7043, 8928, 25393, 13508, 20868, 2181, 32469, 3216>>

\* round(atan(j * 2^-StepBits) * 2^FixBits) for j = 0, 1, ...
AtanTab ==
    <<<<>>,
      <<26645, 14342, 3138, 30371, 15286, 30621, 19076, 11972, 28394, 32426, 31>>,
      <<16685, 9779, 852, 1815, 4828, 5711, 14555, 16250, 23446, 30043, 63>>,
      <<20623, 8066, 6971, 19704, 31984, 19801, 8964, 30855, 9730, 23600, 95>>,
      <<11003, 25294, 18299, 16008, 12606, 8798, 29078, 6070, 6828, 11125, 127>>,
      <<15678, 15273, 32389, 1729, 29844, 15116, 11316, 25196, 20876, 23483, 158>>,
      <<16438, 18902, 29831, 14648, 15904, 22618, 4935, 23298, 6044, 26093, 189>>,
      <<17571, 17186, 12034, 5802, 5895, 12557, 559, 24738, 9508, 17245, 220>>,
      <<27201, 21823, 6117, 28484, 31703, 28220, 12630, 221, 29273, 28119, 250>>,
      <<29006, 4050, 21274, 32288, 17805, 9332, 9753, 25328, 3119, 24493, 280>>,
      <<18371, 2212, 26192, 18923, 9414, 23227, 19768, 22423, 23583, 5049, 310>>,
      <<7402, 8492, 20866, 24423, 15327, 7039, 23379, 6803, 25927, 1388, 339>>,
      <<7356, 15748, 2310, 29689, 2326, 10802, 3697, 15841, 1939, 12490, 367>>,
      <<25843, 17591, 20923, 21544, 29839, 5958, 28084, 13898, 25896, 4713, 395>>,
      <<8303, 28160, 25196, 121, 12104, 10185, 14024, 18425, 3888, 10102, 422>>,
      <<24472, 13844, 28679, 26162, 27827, 25374, 3320, 5087, 9531, 28070, 448>>,
      <<2756, 28180, 6662, 28906, 12133, 32324, 26797, 30366, 5510, 25400, 474>>,
      <<18800, 4108, 22916, 30499, 25578, 27939, 19340, 10287, 11600, 1768, 500>>,
      <<23768, 25130, 22275, 3368, 7350, 27969, 2706, 17215, 9945, 22505, 524>>,
      <<31648, 8060, 11246, 14682, 4036, 10383, 27970, 19107, 24542, 21977, 548>>,
      <<26592, 8980, 23838, 11809, 24934, 4203, 26327, 31439, 24311, 186, 572>>,
      <<24820, 26389, 19427, 15441, 14655, 6302, 15750, 14531, 18820, 22757, 594>>,
      <<28422, 13768, 20211, 639, 3618, 17631, 2064, 24301, 26225, 24321, 616>>,
      <<15644, 15080, 1918, 30776, 9796, 5778, 31550, 23504, 17652, 5115, 638>>,
      <<1674, 18401, 12923, 11245, 29348, 13583, 18694, 31620, 6452, 30970, 658>>,
      <<5718, 29486, 20439, 29641, 19291, 11600, 29220, 6266, 23624, 3927, 679>>,
      <<11078, 1768, 7208, 29328, 25331, 3659, 8197, 27744, 14516, 22680, 698>>,
      <<32552, 18643, 25831, 8983, 5956, 8232, 9302, 539, 18719, 22115, 717>>,
      <<27841, 31477, 4340, 1314, 21793, 26036, 7410, 6351, 11202, 2684, 736>>,
      <<14367, 10229, 19008, 16509, 110, 550, 8245, 17785, 27369, 30395, 753>>,
      <<26728, 11037, 26771, 29847, 11334, 15276, 4130, 10547, 14508, 7435, 771>>,
      <<8630, 6988, 2181, 25840, 20747, 5767, 21795, 18398, 31423, 32607, 787>>,
      <<19977, 20996, 29508, 1760, 10424, 6348, 3377, 13409, 8737, 8117, 804>>>>

\* 1/(2k+1) - u/(2k+3) + u^2/(2k+5) - ... in fixed point, given the sum h
\* from the term 1/(2k+3) on.
RECURSIVE AtanSeries(_, _, _)
AtanSeries(u, k, h) ==
    IF h = <<>> \/ k < 0 THEN h
    ELSE AtanSeries(u, k - 1,
                    NSub(NDivMod(FixOne, NOfInt(2 * k + 1))[1], FixMul(u, h)))

\* atan(c) + atan(r), with atan(r) = r - r^3/3 + r^5/5 - ..., for
\* c = j * 2^-StepBits
FixAtanSum(j, r) ==
    NAdd(AtanTab[j + 1],
         FixMul(r, AtanSeries(FixMul(r, r), SeriesTerms - 1,
                              NDivMod(FixOne,
                                      NOfInt(2 * SeriesTerms + 1))[1])))

\* atan(t) for c = j * 2^-StepBits the multiple of 2^-StepBits below t:
\* atan(c) + atan(r) for r = (t - c) / (1 + t * c)
FixAtanNear(t, j) ==
    FixAtanSum(j, FixDiv(NSub(t, NShl(NOfInt(j), FixBits - StepBits)),
                         NAdd(FixOne, NShr(NMulSmall(t, j), StepBits))))

\* atan(t) in fixed point for 0 <= t <= 1 in fixed point
FixAtan(t) == FixAtanNear(t, NToInt(NShr(t, FixBits - StepBits)))

\* The f64 of magnitude m * 2^q and the next one away from zero.
Neighbours(s, q, m) ==
    {IF m = <<>> THEN Zero(s) ELSE Pack(s, m, q),
     RoundCarry(s, q, NAdd(m, <<1>>))}

\* The two f64 next to (-1)^s * (M + t) * 2^E for 0 < t < 1, with q the
\* exponent of the one nearer zero.
BracketAt(s, M, E, q) ==
    Neighbours(s, q, IF q <= E THEN NShl(M, E - q) ELSE NShr(M, q - E))

Bracket(s, M, E) == BracketAt(s, M, E, Max(E + NBitLen(M) - Prec, QMin))

\* A fixed-point angle of an axis or a diagonal, rounded to the format with
\* sign s.
Angle(s, a) == Round(s, a, 0 - FixBits, TRUE)

\* floor(n * 2^k / d) for any integer k
NScaledDiv(n, k, d) ==
    NDivMod(IF k >= 0 THEN NShl(n, k) ELSE NShr(n, 0 - k), d)[1]

\* small / big in fixed point, for finite 0 < small <= big
FixRatio(small, big) ==
    NScaledDiv(small.m, FixBits + small.e - big.e, big.m)

\* The angle between the vector and the nearer axis, for finite x and y
\* that are not zero: big is the larger of |x| and |y|, small the other.
AxisAngle(big, small) == FixAtan(FixRatio(small, big))

\* atan(y / x) for 0 < y / x < 2^-SmallBits keeps the precision of the
\* quotient, which the fixed-point angle loses.
SmallBits == 20

\* 1 - t^2/3 in fixed point, rounded down: atan(t) = t * (1 - t^2/3 + ...)
SmallFactor(t) ==
    NSub(NSub(FixOne, NDivMod(FixMul(t, t), <<3>>)[1]), <<1>>)

\* n * 2^-FixBits / x.m at the exponent of y / x, the quotient scaled by
\* 2^sc so that it has at least Prec + 2 bits: the two f64 next to it, with
\* the sign of y.
SmallQuot(y, x, n, sc) ==
    Bracket(y.s, NScaledDiv(n, sc, x.m), y.e - x.e - FixBits - sc)

SmallScaled(y, x, n) ==
    SmallQuot(y, x, n, Prec + 3 + NBitLen(x.m) - NBitLen(n))

\* The two f64 next to atan(y / x) for 0 < y / x < 2^-SmallBits, with the
\* sign of y.
SmallAngle(y, x) == SmallScaled(y, x, NMul(y.m, SmallFactor(FixRatio(y, x))))

\* |x| >= |y| for finite x and y
MagGe(x, y) ==
    IF IsZero(y) THEN TRUE
    ELSE IF IsZero(x) THEN FALSE
    ELSE IF x.e >= y.e
         THEN (x.e - y.e > Prec \/ NCmp(NShl(x.m, x.e - y.e), y.m) >= 0)
    ELSE (y.e - x.e <= Prec /\ NCmp(x.m, NShl(y.m, y.e - x.e)) >= 0)

\* The angle a to the nearer axis, taken from the axis of the quadrant: ge
\* says |x| >= |y| and sx is the sign of x.
Fold(sx, ge, a) ==
    IF ge THEN (IF sx = 0 THEN a ELSE NSub(PiFix, a))
    ELSE IF sx = 0 THEN NSub(NShr(PiFix, 1), a)
    ELSE NAdd(NShr(PiFix, 1), a)

\* The angle of (x, |y|) in fixed point for finite x and y that are not
\* zero.
FiniteAngle(y, x, ge) ==
    Fold(x.s, ge, AxisAngle(IF ge THEN x ELSE y, IF ge THEN y ELSE x))

\* The angle of (x, |y|) in fixed point where x or y is zero or infinite
\* and the angle is not zero: pi on the negative x axis, pi/2 on the y
\* axis, pi/4 and 3pi/4 between infinities.
FixAngle(y, x) ==
    IF IsZero(y) THEN PiFix
    ELSE IF IsZero(x) THEN NShr(PiFix, 1)
    ELSE IF IsInf(y)
         THEN (IF IsFinite(x) THEN NShr(PiFix, 1)
               ELSE IF x.s = 0 THEN NShr(PiFix, 2)
               ELSE NShr(NMulSmall(PiFix, 3), 2))
    ELSE PiFix

\* x and y are finite and not zero
Oblique(y, x) ==
    /\ IsFinite(x) /\ ~IsZero(x)
    /\ IsFinite(y) /\ ~IsZero(y)

\* x is positive and |y / x| < 2^-SmallBits, for finite x and y that are not
\* zero
Shallow(y, x) ==
    /\ x.s = 0
    /\ (NBitLen(y.m) + y.e) - (NBitLen(x.m) + x.e) < 0 - SmallBits

\* The values y.atan2(x) may return.
FAtan2(y, x) ==
    IF IsNaN(x) \/ IsNaN(y) THEN {NaN}
    ELSE IF x.s = 0 /\ (IsZero(y) \/ (IsInf(x) /\ IsFinite(y)))
         THEN {Zero(y.s)}
    ELSE IF ~Oblique(y, x) THEN {Angle(y.s, FixAngle(y, x))}
    ELSE IF Shallow(y, x) THEN SmallAngle(y, x)
    ELSE Bracket(y.s, FiniteAngle(y, x, MagGe(x, y)), 0 - FixBits)


(***************************************************************************)
(* Display of an f64: write!(f, "{}", x) prints the shortest decimal       *)
(* digits that read back as x, the closest to x among those (the upper of  *)
(* two equally close), in positional notation without an exponent.         *)
(***************************************************************************)

Digits == <<"0", "1", "2", "3", "4", "5", "6", "7", "8", "9">>

\* A string of n zeros.
RECURSIVE Zeros(_)
Zeros(n) ==
    IF n <= 0 THEN ""
    ELSE LET h == Zeros(n \div 2)
         IN  IF n % 2 = 1 THEN h \o h \o "0" ELSE h \o h

\* The decimal digits of i in exactly w characters, for i < 10^w.
RECURSIVE PadInt(_, _)
PadInt(i, w) ==
    IF w <= 0 THEN "" ELSE PadInt(i \div 10, w - 1) \o Digits[(i % 10) + 1]

\* a^k for a digit a.
RECURSIVE NPow(_, _)
NPow(a, k) ==
    IF k <= 0 THEN <<1>>
    ELSE LET h == NPow(a, k \div 2)
             s == NMul(h, h)
         IN  IF k % 2 = 1 THEN NMulSmall(s, a) ELSE s

Pow10(k) == NShl(NPow(5, k), k)

\* Digits are written in groups of at most GroupLen, which fit an integer.
GroupLen == 9

\* The digits of a quotient by 10^GroupLen, then the GroupLen of its
\* remainder.
PadGroups(qr, w) ==
    PadInt(NToInt(qr[1]), w - GroupLen) \o PadInt(NToInt(qr[2]), GroupLen)

\* The decimal digits of the natural number a in exactly w characters, for
\* a < 10^w and w <= 2 * GroupLen.
PadNat(a, w) ==
    IF w <= GroupLen THEN PadInt(NToInt(a), w)
    ELSE PadGroups(NDivMod(a, Pow10(GroupLen)), w)

\* x is the least number of its binade: the gap below it is half the gap
\* above it.
Edge(x) == IsNormal(x) /\ x.m = NShl(<<1>>, Prec - 1)

\* x and the halves of the gaps to its neighbours as fractions of 10^k over
\* the common denominator scale: x = mant / scale * 10^k, with the
\* significand scaled by 2^g so that the half gaps are integers (g = 2 at
\* the edge of a binade, 1 elsewhere).  inclusive says that the ends of the
\* interval read back as x, which they do when the mantissa is even.
DecodeScaled(x, g, t, scale) ==
    [mant      |-> NMul(NShl(x.m, g), t),
     minus     |-> t,
     plus      |-> NShl(t, g - 1),
     scale     |-> scale,
     inclusive |-> ~NIsOdd(x.m)]

DecodeAt(x, k, g) ==
    DecodeScaled(x, g,
                 NShl(Pow10(Max(0 - k, 0)), Max(x.e - g, 0)),
                 NShl(Pow10(Max(k, 0)), Max(g - x.e, 0)))

Decode(x, k) == DecodeAt(x, k, IF Edge(x) THEN 2 ELSE 1)

\* a < b, or a <= b when inclusive.
Before(a, b, inclusive) ==
    IF inclusive THEN NCmp(a, b) <= 0 ELSE NCmp(a, b) < 0

\* The upper end of the interval d is beyond 10^k, the power d is scaled by.
Beyond(d) == Before(d.scale, NAdd(d.mant, d.plus), d.inclusive)

\* The upper end of the interval of x is beyond 10^k.
Exceeds(x, k) == Beyond(Decode(x, k))

\* An estimate of floor(log10 x) from the length of x in bits, by
\* log10(2) ~ LogNum / LogDen.
LogNum == 30103
LogDen == 100000

\* The estimate k0 is at most two below: one more for each of 10^k0 and
\* 10^(k0 + 1) that the upper end of the interval is beyond.
ScalingFrom(x, k0) ==
    k0 + Cardinality({j \in {k0, k0 + 1} : Exceeds(x, j)})

\* The k with 10^(k-1) < upper end of the interval <= 10^k.
Scaling(x) ==
    ScalingFrom(x, ((NBitLen(x.m) + x.e - 1) * LogNum) \div LogDen)

\* The digit generation: st.c are the st.n digits written so far, st.mant
\* over scale is what is left of x, ten times per digit written.  With the
\* next digit and the remainder rem after it, it stops at the first digit
\* after which the digits written ds (down), or those with the last one
\* increased (up), are inside the interval, and takes the closer of the
\* two.  The result is <<the digits as a number, their count>>.
RECURSIVE Shortest(_, _, _)
RECURSIVE ShortestDigit(_, _, _, _)
RECURSIVE ShortestEnd(_, _, _, _, _, _, _)
ShortestEnd(scale, inclusive, st, rem, ds, down, up) ==
    IF down \/ up
    THEN <<IF up /\ (~down \/ NCmp(NShl(rem, 1), scale) >= 0)
           THEN NAdd(ds, <<1>>) ELSE ds,
           st.n + 1>>
    ELSE Shortest(scale, inclusive,
                  [c     |-> ds,
                   n     |-> st.n + 1,
                   mant  |-> NMulSmall(rem, 10),
                   minus |-> NMulSmall(st.minus, 10),
                   plus  |-> NMulSmall(st.plus, 10)])

ShortestDigit(scale, inclusive, st, qr) ==
    ShortestEnd(scale, inclusive, st, qr[2],
                NAdd(NMulSmall(st.c, 10), qr[1]),
                Before(qr[2], st.minus, inclusive),
                Before(scale, NAdd(qr[2], st.plus), inclusive))

Shortest(scale, inclusive, st) ==
    ShortestDigit(scale, inclusive, st, NDivMod(st.mant, scale))

\* The shortest digits of the interval d.
ShortestOf(d) ==
    Shortest(d.scale, d.inclusive,
             [c     |-> <<>>,
              n     |-> 0,
              mant  |-> NMulSmall(d.mant, 10),
              minus |-> NMulSmall(d.minus, 10),
              plus  |-> NMulSmall(d.plus, 10)])

\* The digits before and after the decimal point, from the quotient and
\* the remainder of the n digits by 10^(n - k).
PointAt(qr, n, k) == PadNat(qr[1], k) \o "." \o PadNat(qr[2], n - k)

\* The cn[2] digits cn[1] with the decimal point after the first k of
\* them: zeros fill the places between the point and the digits.
Positional(cn, k) ==
    IF 0 < k /\ k < cn[2]
    THEN PointAt(NDivMod(cn[1], Pow10(cn[2] - k)), cn[2], k)
    ELSE (IF k <= 0 THEN "0." \o Zeros(0 - k) ELSE "")
         \o PadNat(cn[1], cn[2]) \o Zeros(k - cn[2])

\* The digits of a finite x that is not zero, 10^k the power above it.
FiniteStr(x, k) == Positional(ShortestOf(Decode(x, k)), k)

\* format!("{}", x)
F64Str(x) ==
    IF IsNaN(x) THEN "NaN"
    ELSE IF IsInf(x) THEN (IF x.s = 1 THEN "-inf" ELSE "inf")
    ELSE IF IsZero(x) THEN (IF x.s = 1 THEN "-0" ELSE "0")
    ELSE (IF x.s = 1 THEN "-" ELSE "") \o FiniteStr(x, Scaling(x))

(***************************************************************************)
(* Vector2                                                                 *)
(***************************************************************************)

\* Vector2::new
new(x, y) == [x |-> x, y |-> y]

\* Vector2::origin
origin == new(Zero(0), Zero(0))

\* The f64 of a natural number below 2^30 (exact).
FromInt(n) == Round(0, NOfInt(n), 0, FALSE)

\* The largest integer among the components the caller starts from.
MaxInt == 5

\* 0.1
Tenth == FDiv(One, FromInt(10))

\* f64::MAX
MaxF64 == Fin(0, NSub(NShl(<<1>>, Prec), <<1>>), QMax)

\* The smallest positive f64, f64::from_bits(1).
MinPositive == Fin(0, <<1>>, QMin)

\* 1.5 * 2^-537, whose square is subnormal and rounded.
SmallExp == 538
Small == Round(0, <<3>>, 0 - SmallExp, FALSE)

\* The f64 values the caller builds its vector from: the zeros, the
\* infinities, NaN, the integers 1..MaxInt, two negative integers, a
\* fraction that is not a binary fraction, and values at the ends of the
\* range, whose squares overflow or underflow.
F64 ==
    {Zero(0), Zero(1), Inf(0), Inf(1), NaN}
        \cup {FromInt(i) : i \in 1..MaxInt}
        \cup {FNeg(One), FNeg(FromInt(2)), Tenth, MaxF64, MinPositive, Small}

\* A vector of two integers whose squares are rounded.
Skew == new(FromInt(558256246), FromInt(4542321))

\* The vectors the caller starts from.
Vector2 == {new(x, y) : x \in F64, y \in F64} \cup {Skew}

\* #[derive(PartialEq)]: a == b, field by field with the == of f64.
eq(a, b) == FEq(a.x, b.x) /\ FEq(a.y, b.y)

\* Mutant of add: the y component is taken from one operand only.
add_y_from_self(a, b) == new(FAdd(a.x, b.x), FAdd(a.y, a.y))

\* impl ops::Add for &Vector2
add(a, b) == new(FAdd(a.x, b.x), FAdd(a.y, b.y))

\* Mutant of sub: the y components are added.
sub_y_added(a, b) == new(FSub(a.x, b.x), FAdd(a.y, b.y))

\* impl ops::Sub for &Vector2
sub(a, b) == new(FSub(a.x, b.x), FSub(a.y, b.y))

\* Vector2::norm
norm(v) == FSqrt(FAdd(FPowi(v.x, 2), FPowi(v.y, 2)))

\* Mutant of is_zero: the components are tested, not the norm.
is_zero_by_components(v) == FEq(v.x, Zero(0)) /\ FEq(v.y, Zero(0))

\* Vector2::is_zero
is_zero(v) == FEq(norm(v), Zero(0))

\* Mutant of multi: both components are computed from x.
multi_x_twice(v, k) == new(FMul(v.x, k), FMul(v.x, k))

\* Vector2::multi
multi(v, k) == new(FMul(v.x, k), FMul(v.y, k))

\* Mutant of divide: a guard returns the origin for a zero divisor.
divide_checked(v, k) ==
    IF IsZero(k) THEN new(Zero(0), Zero(0))
    ELSE new(FDiv(v.x, k), FDiv(v.y, k))

\* Mutant of divide: the components are multiplied by the reciprocal 1/k.
divide_by_reciprocal(v, k) ==
    new(FMul(v.x, FDiv(One, k)), FMul(v.y, FDiv(One, k)))

\* Vector2::divide
divide(v, k) == new(FDiv(v.x, k), FDiv(v.y, k))

\* Result<Vector2, Vector2>
Ok(v) == [tag |-> "Ok", vec |-> v]

Err(v) == [tag |-> "Err", vec |-> v]

\* Mutant of unit: the error carries the vector itself.
unit_err_self(v) ==
    LET n == norm(v)
    IN  IF FEq(n, Zero(0)) THEN Err(v) ELSE Ok(divide(v, n))

\* Mutant of unit: the vector is multiplied by its norm.
unit_multiplied(v) ==
    LET n == norm(v)
    IN  IF FEq(n, Zero(0)) THEN Err(origin) ELSE Ok(multi(v, n))

\* Vector2::unit
unit(v) ==
    LET n == norm(v)
    IN  IF FEq(n, Zero(0)) THEN Err(origin) ELSE Ok(divide(v, n))

\* Vector2::radian: the values the call may return.
radian(v) == FAtan2(v.y, v.x)

\* Mutant of fmt: the components without their labels.
fmt_unlabelled(v) == "(" \o F64Str(v.x) \o ", " \o F64Str(v.y) \o ")"

\* impl fmt::Display for Vector2
fmt(v) == "(x: " \o F64Str(v.x) \o ", y: " \o F64Str(v.y) \o ")"

(***************************************************************************)
(* The program: a caller holds a vector (self) and calls the operations    *)
(* of Vector2 on it, one after the other, in any order.  op, other and c   *)
(* are the call in progress and its arguments, ret is what it returned;    *)
(* the caller takes the returned value before its next call.               *)
(***************************************************************************)

\* What a call returned: tag names the type of the value.
Ret(tag, vec, num, flag, text) ==
    [tag |-> tag, vec |-> vec, num |-> num, flag |-> flag, text |-> text]

RetVector(v) == Ret("Vector2", v, Zero(0), FALSE, "")

RetF64(x) == Ret("f64", origin, x, FALSE, "")

RetBool(b) == Ret("bool", origin, Zero(0), b, "")

RetString(t) == Ret("String", origin, Zero(0), FALSE, t)

RetResult(r) == Ret(r.tag, r.vec, Zero(0), FALSE, "")

NoRet == Ret("none", origin, Zero(0), FALSE, "")

Init ==
    /\ self \in Vector2
    /\ op = "new"
    /\ other = origin
    /\ c = Zero(0)
    /\ ret = RetVector(self)

\* &self + &b
CallAdd ==
    /\ op = "idle"
    /\ \E b \in Vector2 :
        /\ op' = "add"
        /\ other' = b
        /\ ret' = RetVector(add(self, b))
        /\ c' = Zero(0)
        /\ UNCHANGED self

\* &self - &b
CallSub ==
    /\ op = "idle"
    /\ \E b \in Vector2 :
        /\ op' = "sub"
        /\ other' = b
        /\ ret' = RetVector(sub(self, b))
        /\ c' = Zero(0)
        /\ UNCHANGED self

\* self.norm()
CallNorm ==
    /\ op = "idle"
    /\ op' = "norm"
    /\ ret' = RetF64(norm(self))
    /\ other' = origin
    /\ c' = Zero(0)
    /\ UNCHANGED self

\* self.is_zero()
CallIsZero ==
    /\ op = "idle"
    /\ op' = "is_zero"
    /\ ret' = RetBool(is_zero(self))
    /\ other' = origin
    /\ c' = Zero(0)
    /\ UNCHANGED self

\* self.multi(k)
CallMulti ==
    /\ op = "idle"
    /\ \E k \in F64 :
        /\ op' = "multi"
        /\ c' = k
        /\ ret' = RetVector(multi(self, k))
        /\ other' = origin
        /\ UNCHANGED self

\* self.divide(k)
CallDivide ==
    /\ op = "idle"
    /\ \E k \in F64 :
        /\ op' = "divide"
        /\ c' = k
        /\ ret' = RetVector(divide(self, k))
        /\ other' = origin
        /\ UNCHANGED self

\* Mutant of CallUnit: a failing call resets the vector in place.
CallUnitInPlace ==
    /\ op = "idle"
    /\ op' = "unit"
    /\ ret' = RetResult(unit(self))
    /\ other' = origin
    /\ c' = Zero(0)
    /\ self' = IF unit(self).tag = "Err" THEN origin ELSE self

\* self.unit()
CallUnit ==
    /\ op = "idle"
    /\ op' = "unit"
    /\ ret' = RetResult(unit(self))
    /\ other' = origin
    /\ c' = Zero(0)
    /\ UNCHANGED self

\* self.radian()
CallRadian ==
    /\ op = "idle"
    /\ op' = "radian"
    /\ \E r \in radian(self) : ret' = RetF64(r)
    /\ other' = origin
    /\ c' = Zero(0)
    /\ UNCHANGED self

\* format!("{}", self)
CallFmt ==
    /\ op = "idle"
    /\ op' = "fmt"
    /\ ret' = RetString(fmt(self))
    /\ other' = origin
    /\ c' = Zero(0)
    /\ UNCHANGED self

\* The caller takes the value the call returned.
Return ==
    /\ op # "idle"
    /\ op' = "idle"
    /\ other' = origin
    /\ c' = Zero(0)
    /\ ret' = NoRet
    /\ UNCHANGED self

Next ==
    \/ CallAdd
    \/ CallSub
    \/ CallNorm
    \/ CallIsZero
    \/ CallMulti
    \/ CallDivide
    \/ CallUnit
    \/ CallRadian
    \/ CallFmt
    \/ Return

Spec == Init /\ [][Next]_vars

(***************************************************************************)
(* The claims.                                                             *)
(***************************************************************************)

\* Both components are finite.
Finite(v) == IsFinite(v.x) /\ IsFinite(v.y)

\* x is an infinity or NaN.
NonFinite(x) == IsInf(x) \/ IsNaN(x)

\* x^2 + y^2 as norm computes it, before the square root.
SumSq(v) == FAdd(FMul(v.x, v.x), FMul(v.y, v.y))

\* f64::EPSILON, the distance from 1.0 to the next f64.
Epsilon == Fin(0, NShl(<<1>>, Prec - 1), 2 - 2 * Prec)

\* The unit roundoff 2^-53, half of f64::EPSILON: the largest relative error
\* of one rounded operation.
Roundoff == FDiv(Epsilon, FromInt(2))

\* The tolerance of the norm of a unit vector: the roundings of the two
\* norms and of the division add up to five unit roundoffs and terms of
\* second order, which 3 * f64::EPSILON, six unit roundoffs, covers.
Tolerance == FMul(FromInt(3), Epsilon)

\* |n - 1| is at most Tolerance.
Near1(n) == IsFinite(n) /\ MagGe(Tolerance, FSub(n, One))

\* 1/k is computed without rounding: k is a zero, an infinity, or a power
\* of two whose reciprocal is an f64.
ExactReciprocal(k) ==
    \/ IsZero(k)
    \/ IsInf(k)
    \/ /\ IsFinite(k)
       /\ k.m = NShl(<<1>>, NBitLen(k.m) - 1)
       /\ IsFinite(FDiv(One, k))

\* C1: unit(v) returns Err carrying exactly origin when norm(v) == 0, and
\* otherwise Ok carrying divide(v, norm(v)).
C1_UnitResult ==
    op = "unit" =>
        IF FEq(FSqrt(SumSq(self)), Zero(0))
        THEN ret.tag = "Err" /\ ret.vec = new(Zero(0), Zero(0))
        ELSE /\ ret.tag = "Ok"
             /\ ret.vec = new(FDiv(self.x, FSqrt(SumSq(self))),
                              FDiv(self.y, FSqrt(SumSq(self))))

\* A failing unit call on a vector that is not the origin (its squares
\* underflow to zero).
C1_Witness ==
    /\ op = "unit"
    /\ ret.tag = "Err"
    /\ ~IsZero(self.x)
    /\ ~IsZero(self.y)

\* C2: unit is the only operation with an error outcome; every other
\* operation returns a plain value, and divide(v, 0) returns a vector
\* whose components are infinite or NaN.
C2_OnlyUnitFails ==
    /\ ret.tag \in {"Ok", "Err"} <=> op = "unit"
    /\ op \in {"new", "add", "sub", "multi", "divide"} => ret.tag = "Vector2"
    /\ op \in {"norm", "radian"} => ret.tag = "f64"
    /\ op = "is_zero" => ret.tag = "bool"
    /\ (op = "divide" /\ IsZero(c)) =>
           NonFinite(ret.vec.x) /\ NonFinite(ret.vec.y)

\* A division by zero that returned an infinite and a NaN component.
C2_Witness ==
    /\ op = "divide"
    /\ IsZero(c)
    /\ ret.tag = "Vector2"
    /\ IsInf(ret.vec.x)
    /\ IsNaN(ret.vec.y)

\* C3: is_zero(v) is true exactly when norm(v) == 0, with
\* norm(v) = sqrt(x^2 + y^2); is_zero(0, 0) is true, is_zero(3, 4) is
\* false, and is_zero(v) holds exactly when unit(v) fails.
C3_IsZeroIffNormZero ==
    /\ op = "norm" => ret.num = FSqrt(SumSq(self))
    /\ op = "is_zero" =>
           /\ ret.flag <=> FEq(FSqrt(SumSq(self)), Zero(0))
           /\ ret.flag <=> (unit(self).tag = "Err")
           /\ self = origin => ret.flag
           /\ self = new(FromInt(3), FromInt(4)) => ~ret.flag

\* is_zero answered true for a vector with a nonzero component.
C3_Witness ==
    /\ op = "is_zero"
    /\ ret.flag
    /\ ~IsZero(self.x)

\* C4 as stated: subtract(a, a) equals origin for every vector a.
C4_SubSelfAnyVector ==
    (op = "sub" /\ other = self) => eq(ret.vec, origin)

\* C4 amended: subtract(a, a) is exactly origin for every vector a with
\* finite components.
C4_SubSelfFinite ==
    (op = "sub" /\ other = self /\ Finite(self)) => ret.vec = origin

\* A finite nonzero vector subtracted from itself.
C4_Witness ==
    /\ op = "sub"
    /\ other = self
    /\ Finite(self)
    /\ ~IsZero(self.x)
    /\ ~IsZero(self.y)
    /\ ret.vec = origin

\* C5 as stated: multi(v, c) is (v.x * c, v.y * c), and multi(v, 0)
\* equals origin for every vector v.
C5_ScaleByZeroAnyVector ==
    op = "multi" =>
        /\ ret.vec = new(FMul(self.x, c), FMul(self.y, c))
        /\ FEq(c, Zero(0)) => eq(ret.vec, origin)

\* C5 amended: multi(v, c) is (v.x * c, v.y * c), and multi(v, 0) equals
\* origin for every vector v with finite components; multi((3, 4), 2) is
\* (6, 8).
C5_ScaleByZeroFinite ==
    op = "multi" =>
        /\ ret.vec = new(FMul(self.x, c), FMul(self.y, c))
        /\ (FEq(c, Zero(0)) /\ Finite(self)) => eq(ret.vec, origin)
        /\ (self = new(FromInt(3), FromInt(4)) /\ c = FromInt(2)) =>
               ret.vec = new(FromInt(6), FromInt(8))

\* A finite vector with two different nonzero components scaled by zero.
C5_Witness ==
    /\ op = "multi"
    /\ IsZero(c)
    /\ Finite(self)
    /\ ~IsZero(self.x)
    /\ ~IsZero(self.y)
    /\ self.x # self.y
    /\ eq(ret.vec, origin)

\* C6 as stated: divide(v, c) equals multi(v, 1/c) for every v and c.
C6_DivideIsScaleByReciprocal ==
    op = "divide" =>
        ret.vec = new(FMul(self.x, FDiv(One, c)), FMul(self.y, FDiv(One, c)))

\* C6 amended: divide(v, c) is (v.x / c, v.y / c), with no check for
\* c = 0; it equals multi(v, 1/c) when 1/c is computed without rounding.
C6_DivideIsQuotient ==
    op = "divide" =>
        /\ ret.vec = new(FDiv(self.x, c), FDiv(self.y, c))
        /\ (ExactReciprocal(c) /\ ~IsNaN(c)) =>
               ret.vec =
                   new(FMul(self.x, FDiv(One, c)), FMul(self.y, FDiv(One, c)))

\* 3 / 5 is 0.6, and not 3 * (1 / 5).
C6_Witness ==
    /\ op = "divide"
    /\ self.x = FromInt(3)
    /\ c = FromInt(5)
    /\ F64Str(ret.vec.x) = "0.6"
    /\ F64Str(FMul(self.x, FDiv(One, c))) = "0.6000000000000001"

\* C7 as stated: the Display of a vector is "(x, y)", the default
\* renderings of the components between parentheses, separated by a comma
\* and a space, and nothing else.
C7_DisplayUnlabelled ==
    op = "fmt" =>
        ret.text = "(" \o F64Str(self.x) \o ", " \o F64Str(self.y) \o ")"

\* C7 amended: the Display of a vector is "(x: X, y: Y)", X and Y the
\* default renderings of the components.
C7_DisplayLabelled ==
    op = "fmt" =>
        /\ ret.text
               = "(x: " \o F64Str(self.x) \o ", y: " \o F64Str(self.y) \o ")"
        /\ self = new(One, FNeg(FromInt(2))) => ret.text = "(x: 1, y: -2)"
        /\ self = new(Tenth, NaN) => ret.text = "(x: 0.1, y: NaN)"
        /\ self = new(Inf(1), Zero(1)) => ret.text = "(x: -inf, y: -0)"

\* A vector with a fractional and a negative component was formatted.
C7_Witness ==
    /\ op = "fmt"
    /\ self = new(Tenth, FNeg(FromInt(2)))
    /\ ret.text = "(x: 0.1, y: -2)"

\* C8 as stated: for any vector v with nonzero norm, unit(v) succeeds and
\* the norm of the returned vector is 1 within floating-point tolerance.
C8_UnitNormAnyVector ==
    (op = "unit" /\ ~FEq(FSqrt(SumSq(self)), Zero(0))) =>
        ret.tag = "Ok" /\ Near1(norm(ret.vec))

\* C8 amended: for any vector v with nonzero norm, unit(v) succeeds; the
\* norm of the returned vector is within 3 * f64::EPSILON of 1 when
\* x^2 + y^2 neither overflows nor underflows (it is a normal f64).  The
\* norm need not be within one f64::EPSILON: that of unit(Skew) is
\* 1 - 3 * 2^-53.  unit(3, 4) is exactly (0.6, 0.8).
C8_UnitNormNormalRange ==
    (op = "unit" /\ ~FEq(FSqrt(SumSq(self)), Zero(0))) =>
        /\ ret.tag = "Ok"
        /\ IsNormal(SumSq(self)) => Near1(FSqrt(SumSq(ret.vec)))
        /\ self = Skew =>
               FSub(One, FSqrt(SumSq(ret.vec))) = FMul(FromInt(3), Roundoff)
        /\ self = new(FromInt(3), FromInt(4)) =>
               /\ ret.vec = new(FDiv(FromInt(6), FromInt(10)),
                                FDiv(FromInt(8), FromInt(10)))
               /\ F64Str(ret.vec.x) = "0.6"
               /\ F64Str(ret.vec.y) = "0.8"

\* A unit call on a vector of two different nonzero components, in the
\* normal range, whose result is not the vector itself.
C8_Witness ==
    /\ op = "unit"
    /\ ret.tag = "Ok"
    /\ IsNormal(SumSq(self))
    /\ ~IsZero(self.x)
    /\ ~IsZero(self.y)
    /\ self.x # self.y
    /\ ret.vec # self
    /\ Near1(FSqrt(SumSq(ret.vec)))

\* C9: add(a, b) is the component-wise sum, and add(a, b) == add(b, a)
\* for all finite a and b.
C9_AddCommutes ==
    op = "add" =>
        /\ ret.vec = new(FAdd(self.x, other.x), FAdd(self.y, other.y))
        /\ (Finite(self) /\ Finite(other)) =>
               eq(ret.vec,
                  new(FAdd(other.x, self.x), FAdd(other.y, self.y)))

\* A sum of two different finite vectors that was rounded: the smaller
\* addend of each component is lost.
C9_Witness ==
    /\ op = "add"
    /\ Finite(self)
    /\ Finite(other)
    /\ other # self
    /\ ~IsZero(other.x)
    /\ ~IsZero(self.y)
    /\ ret.vec = new(self.x, other.y)

\* C10: no operation changes the vector it is called on, a failing unit
\* call included.
C10_SelfUnchanged == [][self' = self]_vars

\* A failing unit call returned the origin for a vector that is not the
\* origin, and the vector is still what it was.
C10_Witness ==
    /\ op = "unit"
    /\ ret.tag = "Err"
    /\ ret.vec # self
====
